---- MODULE Spec2Model ----
(***************************************************************************)
(* The stdin/stdout <-> HTTP relay of easymcp (src/src/index.ts,           *)
(* startMcpShim).  One 'line' event of the readline interface runs the     *)
(* async handler up to its first await (the outbound POST); the settling   *)
(* of that POST runs the rest of the handler.  Both parts are atomic: the  *)
(* handler has no other suspension point.                                  *)
(***************************************************************************)
EXTENDS Integers, Sequences, FiniteSets, TLC

VARIABLES
    state,      \* "Running" until process.exit(0), then "Stopped"
    exitCode,   \* -1 while the process runs, then the status passed to process.exit
    keepAlive,  \* TRUE while the setInterval heartbeat timer is armed
    debug,      \* options.debug
    lines,      \* the lines read from stdin so far, in arrival order
    pending,    \* indices of lines whose api.post has not settled yet
    calls,      \* indices of lines, one entry per api.post issued, in issue order
    settled,    \* <<[line, outcome]>> if the last step settled an api.post, else <<>>
    out,        \* stdout: [line, resp] in write order (line = the handler that wrote it)
    diag        \* stderr: [line, text] in write order (line 0 = not from a line handler)

vars == <<state, exitCode, keepAlive, debug, lines, pending, calls, settled, out, diag>>

(***************************************************************************)
(* Bounds of the model.                                                    *)
(***************************************************************************)
MaxLines == 2
MaxBeats == 1

(***************************************************************************)
(* JavaScript values.  A string that the code inspects is a sequence of    *)
(* one-character strings, so that toLowerCase and includes are computed.   *)
(***************************************************************************)
Undef == [t |-> "undefined"]
Null == [t |-> "null"]
Num(n) == [t |-> "number", v |-> n]
Str(s) == [t |-> "string", v |-> s]

\* JavaScript truthiness, as used by `a || b` and `if (response.data)`.
\* Variant of Truthy: only undefined and null count as empty.
Truthy_DefinedIsTruthy(v) == v.t \notin {"undefined", "null"}

\* Variant of Truthy: a payload with an error field counts as empty.
Truthy_ErrorIsFalsy(v) ==
    CASE v.t = "undefined" -> FALSE
      [] v.t = "null" -> FALSE
      [] v.t = "number" -> v.v # 0
      [] v.t = "string" -> v.v # <<>>
      [] v.t = "object" -> "error" \notin DOMAIN v.v
      [] OTHER -> TRUE

Truthy(v) ==
    CASE v.t = "undefined" -> FALSE
      [] v.t = "null" -> FALSE
      [] v.t = "number" -> v.v # 0
      [] v.t = "string" -> v.v # <<>>
      [] OTHER -> TRUE

\* a || b
Or(a, b) == IF Truthy(a) THEN a ELSE b

UpperCase == <<"A","B","C","D","E","F","G","H","I","J","K","L","M",
               "N","O","P","Q","R","S","T","U","V","W","X","Y","Z">>
LowerCase == <<"a","b","c","d","e","f","g","h","i","j","k","l","m",
               "n","o","p","q","r","s","t","u","v","w","x","y","z">>

LowerTable ==
    [c \in {UpperCase[k] : k \in 1..Len(UpperCase)} |->
        LowerCase[CHOOSE k \in 1..Len(UpperCase) : UpperCase[k] = c]]

LowerChar(c) == IF c \in DOMAIN LowerTable THEN LowerTable[c] ELSE c

\* String.prototype.toLowerCase
ToLowerCase(s) == [k \in 1..Len(s) |-> LowerChar(s[k])]

\* String.prototype.includes
Includes(s, sub) ==
    \E k \in 0..(Len(s) - Len(sub)) : SubSeq(s, k + 1, k + Len(sub)) = sub

Digits == <<"0","1","2","3","4","5","6","7","8","9">>

RECURSIVE NumberChars(_)
NumberChars(n) ==
    IF n < 10 THEN <<Digits[n + 1]>>
    ELSE NumberChars(n \div 10) \o <<Digits[(n % 10) + 1]>>

\* `${v}` of a template literal.
ToText(v) ==
    CASE v.t = "string" -> v.v
      [] v.t = "number" -> NumberChars(v.v)
      [] v.t = "null" -> <<"null">>
      [] OTHER -> <<"undefined">>

EXPIRED == <<"e","x","p","i","r","e","d">>
LIMIT == <<"l","i","m","i","t">>
QUOTA == <<"q","u","o","t","a">>
InvalidToken == Str(<<"I","n","v","a","l","i","d"," ","t","o","k","e","n">>)

(***************************************************************************)
(* Requests.  A method name is kept as its segments between '/' (so        *)
(* 'tools/list' is <<"tools","list">>); an id is a JavaScript value.       *)
(***************************************************************************)
Obj(id, method) == [t |-> "object", id |-> id, method |-> method]
Method(segs) == Str(segs)

\* JSON.parse(line): the parsed value, or <<>> when parsing throws SyntaxError.
JsonParse(line) ==
    CASE line.json = "invalid" -> <<>>
      [] line.json = "null" -> <<Null>>
      [] line.json = "number" -> <<Num(line.v)>>
      [] OTHER -> <<Obj(line.id, line.method)>>

\* message.method and message.id of a non-null value (undefined on a primitive).
MethodOf(message) == IF message.t = "object" THEN message.method ELSE Undef
IdOf(message) == IF message.t = "object" THEN message.id ELSE Undef

\* Variant of StartsWithNotifications: compares the whole method name.
StartsWithNotifications_Equals(m) == m.v = <<"notifications">>

\* message.method?.startsWith('notifications/') on a string method.
StartsWithNotifications(m) == Len(m.v) >= 2 /\ m.v[1] = "notifications"
IsMethod(m, segs) == m = Method(segs)

\* JSON.stringify of a response object: a key whose value is undefined is dropped.
Stringify(resp) ==
    IF resp.id = Undef THEN [f \in (DOMAIN resp) \ {"id"} |-> resp[f]] ELSE resp

Msg(text, detail) == [text |-> text, detail |-> detail]

\* Variant of initializeResponse: the id is not taken from the request.
initializeResponse_NullId(id) ==
    [jsonrpc |-> "2.0", id |-> Null,
     result |-> [serverInfo |-> [name |-> "easymcp-shim", version |-> "1.0.0"],
                 capabilities |-> [tools |-> [listChanged |-> FALSE]],
                 protocolVersion |-> "2024-11-05"]]

initializeResponse(id) ==
    [jsonrpc |-> "2.0", id |-> id,
     result |-> [serverInfo |-> [name |-> "easymcp-shim", version |-> "1.0.0"],
                 capabilities |-> [tools |-> [listChanged |-> FALSE]],
                 protocolVersion |-> "2024-11-05"]]

\* Variant of emptyToolsResponse: the id of the request is not copied.
emptyToolsResponse_NullId(id) ==
    [jsonrpc |-> "2.0", id |-> Null, result |-> [tools |-> <<>>]]

emptyToolsResponse(id) ==
    [jsonrpc |-> "2.0", id |-> id, result |-> [tools |-> <<>>]]

\* Variant of sendErrorResponse: the id of the request is not passed on.
sendErrorResponse_NullId(id, code, message) ==
    Stringify([jsonrpc |-> "2.0", id |-> Null, error |-> [code |-> code, message |-> message]])

\* sendErrorResponse(id, code, message): the line it writes.
sendErrorResponse(id, code, message) ==
    Stringify([jsonrpc |-> "2.0", id |-> id, error |-> [code |-> code, message |-> message]])

(***************************************************************************)
(* Exceptions and the outcome of api.post.                                 *)
(***************************************************************************)
SyntaxError == [name |-> "SyntaxError", message |-> <<"Unexpected token">>]
TypeError(what) == [name |-> "TypeError", message |-> <<what>>]
McpError(message, type) == [name |-> "McpError", message |-> <<message>>, type |-> type]
\* An AxiosError: without a response (timeout, unreachable) or with status and body.
AxiosNoResponse(cause) ==
    [name |-> "AxiosError", hasResponse |-> FALSE, status |-> 0, data |-> Undef,
     message |-> <<cause>>]
AxiosHttp(status, data) ==
    [name |-> "AxiosError", hasResponse |-> TRUE, status |-> status, data |-> data,
     message |-> <<"Request failed with status code ">> \o NumberChars(status)]
isAxiosError(e) == e.name = "AxiosError"

\* errorData?.error?.message, errorData?.message, errorData?.error?.code
DataErrorMessage(d) ==
    IF d = Undef THEN Undef ELSE IF d.error = Undef THEN Undef ELSE d.error.message
DataMessage(d) == IF d = Undef THEN Undef ELSE d.message
DataErrorCode(d) ==
    IF d = Undef THEN Undef ELSE IF d.error = Undef THEN Undef ELSE d.error.code

\* What a piece of the handler did: lines written, texts logged, exception thrown.
Done(o, l) == [out |-> o, log |-> l, throw |-> <<>>]
Throw(o, l, e) == [out |-> o, log |-> l, throw |-> <<e>>]
Then(a, b) == [out |-> a.out \o b.out, log |-> a.log \o b.log, throw |-> b.throw]

(***************************************************************************)
(* The handler of rl.on('line'), innermost block first.                    *)
(***************************************************************************)

\* The auth message both catch blocks inspect:
\* errorData?.error?.message || errorData?.message || 'Invalid token'
AuthErrorMsg(error) ==
    Or(Or(DataErrorMessage(error.data), DataMessage(error.data)), InvalidToken)

ConnectionHelp ==
    <<"Connection Problem Detected", "-------------------------------",
      "EasyMCP cannot connect to the server. Claude will function without tools.",
      "Possible solutions:", "1. Check your internet connection",
      "2. Ensure the server is running at serverUrl", "3. Check any firewall settings",
      "For help, visit: https://console.easymcp.net/status">>

\* Variant of ToolsListAuthFailure: every HTTP failure is treated as an auth failure.
ToolsListAuthFailure_AnyStatus(error) ==
    isAxiosError(error) /\ error.hasResponse

\* Variant of ToolsListAuthFailure: only 401 counts as an auth failure.
ToolsListAuthFailure_401Only(error) ==
    isAxiosError(error) /\ error.hasResponse /\ error.status = 401

\* axios.isAxiosError(error) && (error.response?.status === 401 || ... === 403)
ToolsListAuthFailure(error) ==
    isAxiosError(error) /\ error.hasResponse /\ error.status \in {401, 403}

\* catch (error) of the tools/list try block.
ToolsListCatch(message, error) ==
    IF ToolsListAuthFailure(error)
    THEN LET errorMsg == AuthErrorMsg(error) IN
         IF errorMsg.t # "string"
         THEN Throw(<<>>, <<>>, TypeError("errorMsg.toLowerCase is not a function"))
         ELSE IF Includes(ToLowerCase(errorMsg.v), EXPIRED)
         THEN Throw(<<>>, <<>>,
                McpError("Your authentication token has expired. Please renew your subscription.",
                         "AUTH_EXPIRED"))
         ELSE IF Includes(ToLowerCase(errorMsg.v), LIMIT) \/ Includes(ToLowerCase(errorMsg.v), QUOTA)
         THEN Throw(<<>>, <<>>,
                McpError("You have reached your usage limits. Please upgrade your plan.",
                         "AUTH_LIMITS"))
         ELSE Throw(<<>>, <<>>,
                McpError("Your authentication token is invalid. Please check or renew your token.",
                         "AUTH_INVALID"))
    ELSE LET written == Done(<<Stringify(emptyToolsResponse(IdOf(message)))>>,
                             <<"Returning empty tools list due to server error">>) IN
         IF isAxiosError(error) /\ ~error.hasResponse
         THEN Then(written,
                Throw(<<>>, ConnectionHelp,
                  McpError("Cannot connect to the EasyMCP server. Please check your network and server status.",
                           "CONNECTION")))
         ELSE written

\* Variant of ToolsListTry: no else branch for an empty body.
ToolsListTry_NoElse(message, outcome) ==
    IF outcome.t = "ok"
    THEN IF Truthy(outcome.data)
         THEN Done(<<outcome.data.v>>, <<"Response sent for: tools/list">>)
         ELSE Done(<<>>, <<>>)
    ELSE ToolsListCatch(message, outcome.error)

\* The tools/list block once api.post has settled.
ToolsListTry(message, outcome) ==
    IF outcome.t = "ok"
    THEN IF Truthy(outcome.data)
         THEN Done(<<outcome.data.v>>, <<"Response sent for: tools/list">>)
         ELSE Done(<<Stringify(emptyToolsResponse(IdOf(message)))>>,
                   <<"Returning empty tools list due to server unreachable">>)
    ELSE ToolsListCatch(message, outcome.error)

\* The `if (message.method === 'tools/list') throw new McpError(...)` that ends each
\* auth branch of the outer catch block; otherwise control reaches sendErrorResponse.
AuthBranch(message, code, errorMessage, logs, mcp) ==
    IF IsMethod(MethodOf(message), <<"tools", "list">>)
    THEN Throw(<<>>, logs, mcp)
    ELSE Done(<<sendErrorResponse(IdOf(message), code, errorMessage)>>, logs)

\* Variant of IsRateLimit: the 429 branch is missing.
IsRateLimit_Never(error) == FALSE

\* error.response.status === 429
IsRateLimit(error) == error.status = 429

\* Variant of IsServerError: a body that carries -32601 is taken as method-not-found first.
IsServerError_AfterNotFound(error) ==
    error.status >= 500 /\ DataErrorCode(error.data) # Num(-32601)

\* error.response.status >= 500
IsServerError(error) == error.status >= 500

\* Variant of IsNotFound: every client error status is taken as method-not-found.
IsNotFound_AnyClientError(error) ==
    error.status \in 400..499 \/ DataErrorCode(error.data) = Num(-32601)

\* Variant of IsNotFound: only the HTTP status is looked at.
IsNotFound_StatusOnly(error) == error.status = 404

\* error.response?.status === 404 || error.response?.data?.error?.code === -32601
IsNotFound(error) == error.status = 404 \/ DataErrorCode(error.data) = Num(-32601)

\* Variant of NotFoundBranch: answers with the JSON-RPC code for an invalid request.
NotFoundBranch_InvalidRequest(message) ==
    Done(<<sendErrorResponse(IdOf(message), -32600,
             Msg("Method not found: ", ToText(MethodOf(message))))>>, <<>>)

\* Variant of NotFoundBranch: logs like the other HTTP branches.
NotFoundBranch_Logged(message) ==
    Done(<<sendErrorResponse(IdOf(message), -32601,
             Msg("Method not found: ", ToText(MethodOf(message))))>>,
         <<"HTTP error", "Request to server failed">>)

\* The method-not-found branch: sets code and message, logs nothing.
NotFoundBranch(message) ==
    Done(<<sendErrorResponse(IdOf(message), -32601,
             Msg("Method not found: ", ToText(MethodOf(message))))>>, <<>>)

\* catch (error) of the forwarding try block: classification, then sendErrorResponse.
ForwardCatch(message, error) ==
    IF ~isAxiosError(error)
    THEN Done(<<sendErrorResponse(IdOf(message), -32603, Msg("", error.message))>>,
              <<"Request error">>)
    ELSE IF ~error.hasResponse
    THEN Done(<<sendErrorResponse(IdOf(message), -32001,
                  Msg("Server unreachable. Please check your network connection and server status.", <<>>))>>,
              <<"Network error", "Connection issue detected", "If this persists">>)
    ELSE IF error.status \in {401, 403}
    THEN LET errorMsg == AuthErrorMsg(error) IN
         IF errorMsg.t # "string"
         THEN Throw(<<>>, <<>>, TypeError("errorMsg.toLowerCase is not a function"))
         ELSE IF Includes(ToLowerCase(errorMsg.v), EXPIRED)
         THEN AuthBranch(message, -32003,
                Msg("Your authentication token has expired. Please renew your subscription.", <<>>),
                <<"Token expired", "Please visit console to renew">>,
                McpError("Your authentication token has expired. Please renew your subscription.",
                         "AUTH_EXPIRED"))
         ELSE IF Includes(ToLowerCase(errorMsg.v), LIMIT) \/ Includes(ToLowerCase(errorMsg.v), QUOTA)
         THEN AuthBranch(message, -32004,
                Msg("You have reached your usage limits. Please upgrade your plan.", <<>>),
                <<"Usage limits exceeded", "Please visit console to upgrade">>,
                McpError("You have reached your usage limits. Please upgrade your plan.",
                         "AUTH_LIMITS"))
         ELSE AuthBranch(message, -32003,
                Msg("Authentication failed: ", errorMsg.v),
                <<"Authentication failed", "Please check your token">>,
                McpError("Your authentication token is invalid. Please check or renew your token.",
                         "AUTH_INVALID"))
    ELSE IF IsRateLimit(error)
    THEN Done(<<sendErrorResponse(IdOf(message), -32029,
                  Msg("Rate limit exceeded. Please try again later.", <<>>))>>,
              <<"Rate limit error", "Rate limit exceeded", "Consider upgrading">>)
    ELSE IF IsServerError(error)
    THEN Done(<<sendErrorResponse(IdOf(message), -32000,
                  Msg("Server error: ",
                      ToText(Or(DataMessage(error.data), Str(<<"Internal server error">>)))))>>,
              <<"Server error", "EasyMCP server encountered an internal error", "This is likely temporary">>)
    ELSE IF IsNotFound(error)
    THEN NotFoundBranch(message)
    ELSE Done(<<sendErrorResponse(IdOf(message), -32602,
                  Msg("Request failed: ", ToText(Or(DataMessage(error.data), Str(error.message)))))>>,
              <<"HTTP error", "Request to server failed">>)

\* The forwarding try block once api.post has settled (lines 117-217), with its catch.
Forward(message, outcome) ==
    IF IsMethod(MethodOf(message), <<"tools", "list">>)
    THEN LET r == ToolsListTry(message, outcome) IN
         IF r.throw = <<>> THEN r
         ELSE Then(Done(r.out, r.log), ForwardCatch(message, r.throw[1]))
    ELSE IF outcome.t = "ok"
    THEN IF Truthy(outcome.data)
         THEN Done(<<outcome.data.v>>, <<"Response sent">>)
         ELSE Done(<<sendErrorResponse(IdOf(message), -32603,
                       Msg("Server returned empty response", <<>>))>>,
                   <<"Empty response from server">>)
    ELSE ForwardCatch(message, outcome.error)

\* Variant of OuterCatch: reports 'invalid request' instead of 'parse error'.
OuterCatch_InvalidRequest(error) ==
    Done(<<sendErrorResponse(Null, -32600, Msg("Parse error: ", error.message))>>,
         <<"Parse error">>)

\* The outermost catch block: every exception that reaches it is reported as a parse error.
OuterCatch(error) ==
    Done(<<sendErrorResponse(Null, -32700, Msg("Parse error: ", error.message))>>,
         <<"Parse error">>)

\* Everything the handler does after the await: Forward, then OuterCatch on a throw.
AfterAwait(message, outcome) ==
    LET r == Forward(message, outcome) IN
    IF r.throw = <<>> THEN r ELSE Then(Done(r.out, r.log), OuterCatch(r.throw[1]))

\* The handler up to the await.  `post` tells whether api.post is issued.
BeforeAwait(line) ==
    LET parsed == JsonParse(line) IN
    IF parsed = <<>>
    THEN [post |-> FALSE, r |-> OuterCatch(SyntaxError)]
    ELSE LET message == parsed[1] IN
    IF message.t = "null"
    THEN [post |-> FALSE,
          r |-> OuterCatch(TypeError("Cannot read properties of null (reading 'method')"))]
    ELSE LET method == MethodOf(message) IN
    IF method.t \notin {"undefined", "null", "string"}
    THEN [post |-> FALSE,
          r |-> Then(Done(<<>>, <<"Received">>),
                     OuterCatch(TypeError("message.method?.startsWith is not a function")))]
    ELSE IF method.t = "string" /\ StartsWithNotifications(method)
    THEN [post |-> FALSE, r |-> Done(<<>>, <<"Received", "Received notification">>)]
    ELSE IF IsMethod(method, <<"initialize">>)
    THEN [post |-> FALSE,
          r |-> Done(<<Stringify(initializeResponse(IdOf(message)))>>,
                     <<"Received", "Initialization complete">>)]
    ELSE [post |-> TRUE, r |-> Done(<<>>, <<"Received", "Forwarding">>)]

(***************************************************************************)
(* The inputs the model draws from: lines on stdin, answers of the remote. *)
(***************************************************************************)
Line0(json) == [json |-> json]
Request(id, method) == [json |-> "object", id |-> id, method |-> Method(method)]
\* Lines of every shape: not JSON, JSON that is no request, requests with and without id.
InputLines ==
    {Line0("invalid"), Line0("null"), [json |-> "number", v |-> 5],
     [json |-> "object", id |-> Num(1), method |-> Num(5)],
     Request(Undef, <<"notifications", "progress">>), Request(Num(1), <<"notifications", "progress">>),
     Request(Undef, <<"initialize">>), Request(Null, <<"initialize">>), Request(Num(1), <<"initialize">>),
     Request(Undef, <<"tools", "list">>), Request(Num(1), <<"tools", "list">>),
     Request(Undef, <<"tools", "call">>), Request(Null, <<"tools", "call">>),
     Request(Num(1), <<"tools", "call">>)}
\* Well-formed requests only, for the specification that explores every remote answer.
Requests == {Request(Num(1), <<"tools", "list">>), Request(Num(1), <<"tools", "call">>)}

Body(error, message) == [error |-> error, message |-> message]
Bodies ==
    {Undef,
     Body(Undef, Str(<<"T","o","k","e","n"," ","E","X","P","I","R","E","D">>)),
     Body([message |-> Str(<<"L","i","m","i","t"," ","h","i","t">>), code |-> Num(-32000)], Undef),
     Body(Undef, Str(<<"q","u","o","t","a">>)),
     Body(Undef, Str(<<"l","i","m","i","t",","," ","e","x","p","i","r","e","d">>)),
     Body(Undef, Str(<<"b","a","d">>)),
     Body(Undef, Num(123)),
     Body([message |-> Undef, code |-> Num(-32601)], Undef)}
Statuses == {400, 401, 403, 404, 429, 500}

RemoteResult(id) == [jsonrpc |-> "2.0", id |-> id, result |-> [content |-> "remote"]]
RemoteError(id) ==
    [jsonrpc |-> "2.0", id |-> id, error |-> [code |-> -32601, message |-> Msg("remote", <<>>)]]
JsObject(v) == [t |-> "object", v |-> v]
\* The id a remote that follows JSON-RPC puts in its answer.
EchoId(message) == IF IdOf(message) = Undef THEN Null ELSE IdOf(message)

Ok(data) == [t |-> "ok", data |-> data]
Fail(error) == [t |-> "fail", error |-> error]
\* api.post rejects: no response at all, or an HTTP status with a body.
Failures ==
    {Fail(AxiosNoResponse(c)) : c \in {"timeout of 60000ms exceeded", "connect ECONNREFUSED"}}
    \cup {Fail(AxiosHttp(st, b)) : st \in Statuses, b \in Bodies}
Outcomes(message) ==
    {Ok(Str(<<>>)), Ok(JsObject(RemoteResult(EchoId(message)))),
     Ok(JsObject(RemoteResult(Num(99)))), Ok(JsObject(RemoteError(EchoId(message))))}
    \cup Failures
\* A few answers of each class, for the specification that explores every line shape.
Answers(message) ==
    {Ok(Str(<<>>)), Ok(JsObject(RemoteResult(EchoId(message)))),
     Fail(AxiosNoResponse("timeout of 60000ms exceeded")),
     Fail(AxiosHttp(401, Body(Undef, Num(123))))}
\* One failure of each class the handler tells apart.
FailureClasses ==
    {Fail(AxiosNoResponse("connect ECONNREFUSED")),
     Fail(AxiosHttp(401, Body(Undef, Str(<<"T","o","k","e","n"," ","E","X","P","I","R","E","D">>)))),
     Fail(AxiosHttp(403, Undef)),
     Fail(AxiosHttp(429, Undef)),
     Fail(AxiosHttp(500, Undef)),
     Fail(AxiosHttp(404, Undef)),
     Fail(AxiosHttp(400, Undef))}
\* A remote whose answer is a function of the request: it answers a replayed
\* request as it answered the first one.
RemoteFor(message) ==
    IF IdOf(message) = Num(1) THEN Ok(JsObject(RemoteResult(EchoId(message))))
    ELSE IF IdOf(message) = Num(2)
    THEN Fail(AxiosHttp(500, Body(Undef, Str(<<"b","a","d">>))))
    ELSE Fail(AxiosNoResponse("timeout of 60000ms exceeded"))
\* Answers around the method-not-found class, for the specification of the diagnostics.
NotFoundAnswers(message) ==
    {Ok(JsObject(RemoteResult(EchoId(message)))),
     Fail(AxiosHttp(404, Undef)),
     Fail(AxiosHttp(404, Body(Undef, Str(<<"b","a","d">>)))),
     Fail(AxiosHttp(400, Body([message |-> Undef, code |-> Num(-32601)], Undef))),
     Fail(AxiosHttp(400, Undef)),
     Fail(AxiosHttp(409, Body(Undef, Str(<<"b","a","d">>))))}

(***************************************************************************)
(* The state machine.                                                      *)
(***************************************************************************)
\* Variant of Log: the debug flag is not consulted.
Log_Always(i, texts) == [k \in 1..Len(texts) |-> [line |-> i, text |-> texts[k]]]

\* log(message) for each text, from the handler of line i (0: outside any handler).
Log(i, texts) ==
    IF debug THEN [k \in 1..Len(texts) |-> [line |-> i, text |-> texts[k]]] ELSE <<>>

\* Variant of Write: with options.debug on, each response is echoed a second time.
Write_DebugEchoes(i, resps) ==
    IF debug
    THEN [k \in 1..(2 * Len(resps)) |-> [line |-> i, resp |-> resps[(k + 1) \div 2]]]
    ELSE [k \in 1..Len(resps) |-> [line |-> i, resp |-> resps[k]]]

\* process.stdout.write of each response, from the handler of line i.
Write(i, resps) == [k \in 1..Len(resps) |-> [line |-> i, resp |-> resps[k]]]

Message(i) == JsonParse(lines[i])[1]

Init ==
    /\ state = "Running"
    /\ exitCode = -1
    /\ keepAlive = TRUE
    /\ debug \in BOOLEAN
    /\ lines = <<>>
    /\ pending = {}
    /\ calls = <<>>
    /\ settled = <<>>
    /\ out = <<>>
    /\ diag = Log(0, <<"MCP shim started", "Connecting to server">>)

\* Variant of Line: what the handler writes before its await is put ahead of the
\* lines written so far, and its call ahead of the calls issued so far.
Line_Prepends(l) ==
    /\ state = "Running"
    /\ Len(lines) < MaxLines
    /\ LET i == Len(lines) + 1
           b == BeforeAwait(l)
       IN /\ lines' = Append(lines, l)
          /\ out' = Write(i, b.r.out) \o out
          /\ diag' = diag \o Log(i, b.r.log)
          /\ pending' = IF b.post THEN pending \cup {i} ELSE pending
          /\ calls' = IF b.post THEN <<i>> \o calls ELSE calls
    /\ settled' = <<>>
    /\ UNCHANGED <<state, exitCode, keepAlive, debug>>

\* Variant of Line: a line is taken only when no call is in flight.
Line_OneAtATime(l) ==
    /\ state = "Running"
    /\ Len(lines) < MaxLines
    /\ pending = {}
    /\ LET i == Len(lines) + 1
           b == BeforeAwait(l)
       IN /\ lines' = Append(lines, l)
          /\ out' = out \o Write(i, b.r.out)
          /\ diag' = diag \o Log(i, b.r.log)
          /\ pending' = IF b.post THEN pending \cup {i} ELSE pending
          /\ calls' = IF b.post THEN Append(calls, i) ELSE calls
    /\ settled' = <<>>
    /\ UNCHANGED <<state, exitCode, keepAlive, debug>>

\* rl.on('line'): the handler runs up to its await.
Line(l) ==
    /\ state = "Running"
    /\ Len(lines) < MaxLines
    /\ LET i == Len(lines) + 1
           b == BeforeAwait(l)
       IN /\ lines' = Append(lines, l)
          /\ out' = out \o Write(i, b.r.out)
          /\ diag' = diag \o Log(i, b.r.log)
          /\ pending' = IF b.post THEN pending \cup {i} ELSE pending
          /\ calls' = IF b.post THEN Append(calls, i) ELSE calls
    /\ settled' = <<>>
    /\ UNCHANGED <<state, exitCode, keepAlive, debug>>

\* Variant of Settle: a failed call fails every call in flight, each answered with
\* the classification of that failure.
Settle_FailureAnswersAll(i, o) ==
    /\ state = "Running"
    /\ i \in pending
    /\ IF o.t = "fail"
       THEN /\ out' = out \o Write(i, AfterAwait(Message(i), o).out)
                         \o [k \in 1..Len(SelectSeq(calls, LAMBDA j : j \in pending /\ j # i))
                               |-> [line |-> SelectSeq(calls, LAMBDA j : j \in pending /\ j # i)[k],
                                    resp |-> sendErrorResponse(Null, -32603, Msg("", o.error.message))]]
            /\ diag' = diag \o Log(i, AfterAwait(Message(i), o).log)
            /\ pending' = {}
       ELSE /\ LET r == AfterAwait(Message(i), o)
               IN /\ out' = out \o Write(i, r.out)
                  /\ diag' = diag \o Log(i, r.log)
            /\ pending' = pending \ {i}
    /\ settled' = <<[line |-> i, outcome |-> o]>>
    /\ UNCHANGED <<state, exitCode, keepAlive, debug, lines, calls>>

\* Variant of Settle: the process outlives the close of its input until the calls in
\* flight have settled, and their responses are written.
Settle_AfterClose(i, o) ==
    /\ i \in pending
    /\ LET r == AfterAwait(Message(i), o)
       IN /\ out' = out \o Write(i, r.out)
          /\ diag' = diag \o Log(i, r.log)
    /\ pending' = pending \ {i}
    /\ settled' = <<[line |-> i, outcome |-> o]>>
    /\ UNCHANGED <<state, exitCode, keepAlive, debug, lines, calls>>

\* Variant of Settle: a failed call is issued once more before it is classified.
Settle_RetryOnFailure(i, o) ==
    /\ state = "Running"
    /\ i \in pending
    /\ IF o.t = "fail" /\ Cardinality({k \in 1..Len(calls) : calls[k] = i}) < 2
       THEN /\ calls' = Append(calls, i)
            /\ settled' = <<>>
            /\ UNCHANGED <<state, exitCode, keepAlive, debug, lines, pending, out, diag>>
       ELSE /\ LET r == AfterAwait(Message(i), o)
               IN /\ out' = out \o Write(i, r.out)
                  /\ diag' = diag \o Log(i, r.log)
            /\ pending' = pending \ {i}
            /\ settled' = <<[line |-> i, outcome |-> o]>>
            /\ UNCHANGED <<state, exitCode, keepAlive, debug, lines, calls>>

\* Variant of Settle: an exception thrown by the tools/list block leaves the handler
\* and ends the process with status 1.
Settle_FatalThrow(i, o) ==
    /\ state = "Running"
    /\ i \in pending
    /\ IF IsMethod(MethodOf(Message(i)), <<"tools", "list">>)
          /\ ToolsListTry(Message(i), o).throw # <<>>
       THEN /\ state' = "Stopped"
            /\ exitCode' = 1
            /\ keepAlive' = FALSE
            /\ settled' = <<>>
            /\ pending' = pending \ {i}
            /\ UNCHANGED <<debug, lines, calls, out, diag>>
       ELSE /\ LET r == AfterAwait(Message(i), o)
               IN /\ out' = out \o Write(i, r.out)
                  /\ diag' = diag \o Log(i, r.log)
            /\ pending' = pending \ {i}
            /\ settled' = <<[line |-> i, outcome |-> o]>>
            /\ UNCHANGED <<state, exitCode, keepAlive, debug, lines, calls>>

\* The api.post of line i settles with outcome o: the handler runs to its end.
Settle(i, o) ==
    /\ state = "Running"
    /\ i \in pending
    /\ LET r == AfterAwait(Message(i), o)
       IN /\ out' = out \o Write(i, r.out)
          /\ diag' = diag \o Log(i, r.log)
    /\ pending' = pending \ {i}
    /\ settled' = <<[line |-> i, outcome |-> o]>>
    /\ UNCHANGED <<state, exitCode, keepAlive, debug, lines, calls>>

\* Variant of OnClose: an interrupt ends the process with a failure status and
\* leaves the timer to the exit.
OnClose_InterruptFails(logs) ==
    /\ keepAlive' = (logs # <<>>)
    /\ diag' = diag \o Log(0, logs \o <<"Input stream closed, exiting", "Process exiting">>)
    /\ state' = "Stopped"
    /\ exitCode' = IF logs = <<>> THEN 0 ELSE 1
    /\ settled' = <<>>
    /\ UNCHANGED <<debug, lines, pending, calls, out>>

\* rl.on('close'): clearInterval, log, process.exit(0) (whose 'exit' handler logs).
OnClose(logs) ==
    /\ keepAlive' = FALSE
    /\ diag' = diag \o Log(0, logs \o <<"Input stream closed, exiting", "Process exiting">>)
    /\ state' = "Stopped"
    /\ exitCode' = 0
    /\ settled' = <<>>
    /\ UNCHANGED <<debug, lines, pending, calls, out>>

\* End of stdin.
Close ==
    /\ state = "Running"
    /\ OnClose(<<>>)

\* process.on('SIGINT'): log, rl.close(), which emits 'close' at once.
Sigint ==
    /\ state = "Running"
    /\ OnClose(<<"Received SIGINT signal, shutting down">>)

Beats == Cardinality({k \in 1..Len(diag) : diag[k].text = "Heartbeat"})

\* The setInterval callback.
Heartbeat ==
    /\ state = "Running"
    /\ keepAlive
    /\ Beats < MaxBeats
    /\ diag' = diag \o Log(0, <<"Heartbeat">>)
    /\ settled' = <<>>
    /\ UNCHANGED <<state, exitCode, keepAlive, debug, lines, pending, calls, out>>

LineStep(L) == \E l \in L : Line(l)
\* Some pending api.post settles, with one of a few answers / with any answer.
SettleAnswer == \E i \in pending : \E o \in Answers(Message(i)) : Settle(i, o)
SettleOutcome == \E i \in pending : \E o \in Outcomes(Message(i)) : Settle(i, o)

\* Every line shape, a few remote answers.
Next ==
    \/ LineStep(InputLines)
    \/ SettleAnswer
    \/ Close
    \/ Sigint

Spec == Init /\ [][Next]_vars

\* Well-formed requests, every remote answer.
NextRemote ==
    \/ LineStep(Requests)
    \/ SettleOutcome
    \/ Close
    \/ Sigint

\* options.debug off: what is written to stdout does not read the flag.
InitQuiet == Init /\ debug = FALSE

SpecRemote == InitQuiet /\ [][NextRemote]_vars

\* With the heartbeat timer, which writes to stderr only.
NextLife ==
    \/ Next
    \/ Heartbeat

SpecLife == Init /\ [][NextLife]_vars

SettleNotFound == \E i \in pending : \E o \in NotFoundAnswers(Message(i)) : Settle(i, o)

\* Well-formed requests and answers around 404, with options.debug on or off and the
\* heartbeat timer: what is written to stderr.
NextDiag ==
    \/ LineStep(Requests)
    \/ SettleNotFound
    \/ Heartbeat
    \/ Close
    \/ Sigint

SpecDiag == Init /\ [][NextDiag]_vars

\* Malformed lines and requests whose calls fail.
ErrorLines ==
    {Line0("invalid"), Request(Num(1), <<"tools", "list">>),
     Request(Num(1), <<"tools", "call">>)}

SettleFailure == \E i \in pending : \E o \in FailureClasses : Settle(i, o)

\* Per-message errors only: malformed lines and remote failures of every class.
NextErrors ==
    \/ LineStep(ErrorLines)
    \/ SettleFailure
    \/ Close
    \/ Sigint

SpecErrors == Init /\ [][NextErrors]_vars

\* Requests to replay: local and forwarded methods, ids that select the remote's answer.
ReplayLines ==
    {Request(Num(n), m) : n \in 1..3, m \in {<<"initialize">>, <<"tools", "list">>, <<"tools", "call">>}}

SettleReplay == \E i \in pending : Settle(i, RemoteFor(Message(i)))

\* Replayed requests against a remote that answers equal requests equally.
NextReplay ==
    \/ LineStep(ReplayLines)
    \/ SettleReplay
    \/ Close
    \/ Sigint

SpecReplay == Init /\ [][NextReplay]_vars

(***************************************************************************)
(* The earlier variant of the relay (src/unnamed/part_006, first           *)
(* startMcpShim), for methods other than tools/list.  Its handler is the   *)
(* one above up to the forwarding catch; there the 401/403 and 429         *)
(* branches print a message and call process.exit(1).                      *)
(***************************************************************************)
\* The branches of the variant's forwarding catch that end in process.exit(1):
\* 401/403 (once errorMsg.toLowerCase() has not thrown) and 429.
LegacyExits(error) ==
    /\ isAxiosError(error) /\ error.hasResponse
    /\ \/ error.status \in {401, 403} /\ AuthErrorMsg(error).t = "string"
       \/ error.status = 429

\* What those branches log before they exit.
LegacyExitLogs(error) ==
    IF error.status = 429
    THEN <<"Rate limit error", "Rate limit exceeded", "Consider upgrading">>
    ELSE IF Includes(ToLowerCase(AuthErrorMsg(error).v), EXPIRED)
    THEN <<"Token expired", "Please visit console to renew">>
    ELSE IF Includes(ToLowerCase(AuthErrorMsg(error).v), LIMIT)
            \/ Includes(ToLowerCase(AuthErrorMsg(error).v), QUOTA)
    THEN <<"Usage limits exceeded", "Please visit console to upgrade">>
    ELSE <<"Authentication failed", "Please check your token">>

\* Lines of the variant's input: not JSON, and requests on methods other than tools/list.
LegacyLines ==
    {Line0("invalid"), Request(Num(1), <<"tools", "call">>),
     Request(Num(2), <<"resources", "list">>)}

\* The answers of the remote: a result, or a failure of one of the classes.
LegacyAnswers(message) == {Ok(JsObject(RemoteResult(EchoId(message))))} \cup FailureClasses

\* The api.post of line i settles in the variant: process.exit(1) in the exiting
\* branches (the 'exit' listener logs), the handler's usual end otherwise.
LegacySettle(i, o) ==
    /\ state = "Running"
    /\ i \in pending
    /\ IF o.t = "fail" /\ LegacyExits(o.error)
       THEN /\ diag' = diag \o Log(i, LegacyExitLogs(o.error)) \o Log(0, <<"Process exiting">>)
            /\ state' = "Stopped"
            /\ exitCode' = 1
            /\ keepAlive' = FALSE
            /\ UNCHANGED <<out, pending>>
       ELSE /\ LET r == AfterAwait(Message(i), o)
               IN /\ out' = out \o Write(i, r.out)
                  /\ diag' = diag \o Log(i, r.log)
            /\ pending' = pending \ {i}
            /\ UNCHANGED <<state, exitCode, keepAlive>>
    /\ settled' = <<[line |-> i, outcome |-> o]>>
    /\ UNCHANGED <<debug, lines, calls>>

SettleLegacy == \E i \in pending : \E o \in LegacyAnswers(Message(i)) : LegacySettle(i, o)

NextLegacy ==
    \/ LineStep(LegacyLines)
    \/ SettleLegacy
    \/ Close
    \/ Sigint

SpecLegacy == Init /\ [][NextLegacy]_vars

\* Requests that carry an id, and lines that are no request: for the liveness property.
LiveLines ==
    {Line0("invalid"), Request(Undef, <<"notifications", "progress">>),
     Request(Num(1), <<"initialize">>), Request(Num(1), <<"tools", "list">>),
     Request(Num(1), <<"tools", "call">>)}

NextLive ==
    \/ LineStep(LiveLines)
    \/ SettleAnswer
    \/ Close
    \/ Sigint

\* The api.post of line i settles, one way or another.
SettleLine(i) == i \in pending /\ \E o \in Answers(Message(i)) : Settle(i, o)

\* Every api.post settles: axios answers, fails, or gives up after its 60 s timeout.
SpecLive ==
    /\ Init
    /\ [][NextLive]_vars
    /\ \A i \in 1..MaxLines : WF_vars(SettleLine(i))

(***************************************************************************)
(* Vocabulary of the properties.                                           *)
(***************************************************************************)
Range(s) == {s[k] : k \in 1..Len(s)}
\* The lines the handler of input line i has written to stdout, in order.
OutOf(i) == SelectSeq(out, LAMBDA e : e.line = i)
HasId(resp) == "id" \in DOMAIN resp
IsError(resp) == "error" \in DOMAIN resp
IsResult(resp) == "result" \in DOMAIN resp
\* The response carries exactly the id of the request (no id key when it has none).
SameId(resp, id) == IF id = Undef THEN ~HasId(resp) ELSE HasId(resp) /\ resp.id = id
IsRequest(l) == l.json = "object"
IsNotificationMethod(m) == m.t = "string" /\ Len(m.v) >= 2 /\ m.v[1] = "notifications"
HasMethod(l, segs) == IsRequest(l) /\ l.method = Str(segs)
\* A request with an id and a method that is no notification.
WellFormedRequest(l) ==
    /\ IsRequest(l)
    /\ l.id.t \in {"number", "string"}
    /\ l.method.t = "string"
    /\ ~IsNotificationMethod(l.method)
IsParseError(resp) ==
    IsError(resp) /\ HasId(resp) /\ resp.id = Null /\ resp.error.code = -32700
IsEmptyTools(resp) == IsResult(resp) /\ ~IsError(resp) /\ resp.result = [tools |-> <<>>]
NoResponse(o) == o.t = "fail" /\ ~o.error.hasResponse
HttpStatus(o, statuses) == o.t = "fail" /\ o.error.hasResponse /\ o.error.status \in statuses
\* The step just taken settled the api.post of a request of the given method.
LastSettled(segs) == settled # <<>> /\ HasMethod(lines[settled[1].line], segs)
\* The step just taken settled the api.post of a request of another method than tools/list.
LastSettledOther ==
    /\ settled # <<>>
    /\ WellFormedRequest(lines[settled[1].line])
    /\ ~HasMethod(lines[settled[1].line], <<"tools", "list">>)
LastLine == settled[1].line
LastOutcome == settled[1].outcome
\* The remote call succeeded with a payload that is not empty.
NonEmptyPayload(o) == o.t = "ok" /\ o.data.t = "object"
\* The message of the body of an HTTP failure mentions the word, in any case.
Mentions(o, word) ==
    /\ AuthErrorMsg(o.error).t = "string"
    /\ Includes(ToLowerCase(AuthErrorMsg(o.error).v), word)
\* The code the classification of 401/403 answers gives by the wording of the body.
AuthCode(o) ==
    IF Mentions(o, EXPIRED) THEN -32003
    ELSE IF Mentions(o, LIMIT) \/ Mentions(o, QUOTA) THEN -32004
    ELSE -32003
\* Exactly one line was written for the request just settled: an error response
\* with the given code and the request's id.
OneErrorWithCode(code) ==
    /\ Len(OutOf(LastLine)) = 1
    /\ IsError(OutOf(LastLine)[1].resp)
    /\ ~IsResult(OutOf(LastLine)[1].resp)
    /\ OutOf(LastLine)[1].resp.error.code = code
    /\ SameId(OutOf(LastLine)[1].resp, lines[LastLine].id)

(***************************************************************************)
(* C1: in every reachable state, each input line has at most one response  *)
(* line on stdout.                                                         *)
(***************************************************************************)
C1_AtMostOneOutputPerLine ==
    \A i \in 1..Len(lines) : Len(OutOf(i)) <= 1

(***************************************************************************)
(* C2: when the api.post of a tools/list request fails without an HTTP     *)
(* response, the handler writes exactly one line for it, the success       *)
(* response with the request's id and an empty tools list, and no error.   *)
(***************************************************************************)
C2_ToolsListNoResponseOnlyEmptyTools ==
    (LastSettled(<<"tools", "list">>) /\ NoResponse(LastOutcome))
        => /\ Len(OutOf(LastLine)) = 1
           /\ IsEmptyTools(OutOf(LastLine)[1].resp)
           /\ SameId(OutOf(LastLine)[1].resp, lines[LastLine].id)

(***************************************************************************)
(* C3: once a request with an id and a method that is no notification has  *)
(* been read, a response line for it is eventually written, unless the     *)
(* input stream is closed first; every api.post is assumed to settle.      *)
(***************************************************************************)
C3_EventuallyAnswered ==
    \A i \in 1..MaxLines :
        (i <= Len(lines) /\ WellFormedRequest(lines[i]))
            ~> (Len(OutOf(i)) >= 1 \/ state = "Stopped")

\* A forwarded request with an id whose call has settled and that has its response,
\* the relay still running.
C3_Witness ==
    \E i \in 1..Len(lines) :
        /\ WellFormedRequest(lines[i])
        /\ i \in Range(calls)
        /\ i \notin pending
        /\ Len(OutOf(i)) >= 1
        /\ state = "Running"

(***************************************************************************)
(* C4: every response line written for a request that has an id and is no  *)
(* notification carries that request's id.                                 *)
(***************************************************************************)
C4_ResponseCarriesRequestId ==
    \A k \in 1..Len(out) :
        WellFormedRequest(lines[out[k].line]) => SameId(out[k].resp, lines[out[k].line].id)

(***************************************************************************)
(* C5: a request whose id is absent or null gets no output line, whatever  *)
(* its method.                                                             *)
(***************************************************************************)
C5_NoOutputWithoutId ==
    \A i \in 1..Len(lines) :
        (IsRequest(lines[i]) /\ lines[i].id \in {Undef, Null}) => OutOf(i) = <<>>

(***************************************************************************)
(* C6: a request whose method starts with 'notifications/', with or        *)
(* without an id, gets no output line and no outbound call.                *)
(***************************************************************************)
C6_NotificationsAreSilent ==
    \A i \in 1..Len(lines) :
        (IsRequest(lines[i]) /\ IsNotificationMethod(lines[i].method))
            => (OutOf(i) = <<>> /\ i \notin Range(calls) /\ i \notin pending)

\* A notification that carries an id has been read.
C6_Witness ==
    \E i \in 1..Len(lines) :
        /\ IsRequest(lines[i])
        /\ IsNotificationMethod(lines[i].method)
        /\ lines[i].id = Num(1)

(***************************************************************************)
(* C7: a request with method 'initialize' gets exactly one line, a success *)
(* response with the request's id, protocolVersion '2024-11-05' and        *)
(* capabilities {tools:{listChanged:false}}, and no outbound call, also    *)
(* while other calls are pending.                                          *)
(***************************************************************************)
C7_InitializeAnsweredLocally ==
    \A i \in 1..Len(lines) :
        HasMethod(lines[i], <<"initialize">>)
            => /\ Len(OutOf(i)) = 1
               /\ LET resp == OutOf(i)[1].resp IN
                    /\ IsResult(resp) /\ ~IsError(resp)
                    /\ resp.jsonrpc = "2.0"
                    /\ SameId(resp, lines[i].id)
                    /\ resp.result.protocolVersion = "2024-11-05"
                    /\ resp.result.capabilities = [tools |-> [listChanged |-> FALSE]]
               /\ i \notin Range(calls)
               /\ i \notin pending

\* An initialize request answered while the call of an earlier line is still pending.
C7_Witness ==
    \E i \in 1..Len(lines) :
        /\ HasMethod(lines[i], <<"initialize">>)
        /\ lines[i].id = Num(1)
        /\ Len(OutOf(i)) = 1
        /\ \E j \in pending : j < i

(***************************************************************************)
(* C8: a line that is not JSON gets exactly one line, an error response    *)
(* with id null and code -32700, and no outbound call; reading it leaves   *)
(* the relay running, and every line read after it is handled (answered,   *)
(* forwarded, or silently taken as a notification).                        *)
(***************************************************************************)
C8_Handled(j) ==
    \/ OutOf(j) # <<>>
    \/ j \in Range(calls)
    \/ (IsRequest(lines[j]) /\ IsNotificationMethod(lines[j].method))

C8_ParseErrorRecovered ==
    /\ [](\A i \in 1..Len(lines) :
            lines[i].json = "invalid"
                => /\ Len(OutOf(i)) = 1
                   /\ IsParseError(OutOf(i)[1].resp)
                   /\ i \notin Range(calls)
                   /\ i \notin pending
                   /\ \A j \in (i + 1)..Len(lines) : C8_Handled(j))
    /\ [][\A l \in InputLines :
            (Line(l) /\ l.json = "invalid")
                => (state' = "Running" /\ keepAlive' /\ exitCode' = -1)]_vars

\* A line that is not JSON, then an initialize request: both answered, relay running.
C8_Witness ==
    /\ Len(lines) = 2
    /\ lines[1].json = "invalid"
    /\ HasMethod(lines[2], <<"initialize">>)
    /\ Len(OutOf(1)) = 1 /\ IsParseError(OutOf(1)[1].resp)
    /\ Len(OutOf(2)) = 1 /\ IsResult(OutOf(2)[1].resp)
    /\ state = "Running"

(***************************************************************************)
(* C9: a response with code -32700 and id null is written only for a line  *)
(* that is not JSON.                                                       *)
(***************************************************************************)
C9_ParseErrorOnlyForInvalidJson ==
    \A k \in 1..Len(out) :
        IsParseError(out[k].resp) => lines[out[k].line].json = "invalid"

(***************************************************************************)
(* C10: when the api.post of a tools/list request has been answered with   *)
(* HTTP 401 or 403, the lines written for that request include an error    *)
(* response with the request's id and no success response with an empty    *)
(* tools list; and the lines of a request that is not pending never change.*)
(***************************************************************************)
C10_ToolsListAuthFailureIsError ==
    /\ [](LastSettled(<<"tools", "list">>) /\ HttpStatus(LastOutcome, {401, 403})
            => /\ \E k \in 1..Len(OutOf(LastLine)) :
                    /\ IsError(OutOf(LastLine)[k].resp)
                    /\ SameId(OutOf(LastLine)[k].resp, lines[LastLine].id)
               /\ \A k \in 1..Len(OutOf(LastLine)) : ~IsEmptyTools(OutOf(LastLine)[k].resp))
    /\ [][\A i \in 1..Len(lines) : i \notin pending => OutOf(i)' = OutOf(i)]_vars

\* A tools/list request rejected as expired: its only line is the error response.
C10_Witness ==
    /\ LastSettled(<<"tools", "list">>)
    /\ HttpStatus(LastOutcome, {403})
    /\ Len(OutOf(LastLine)) = 1
    /\ IsError(OutOf(LastLine)[1].resp)
    /\ OutOf(LastLine)[1].resp.error.message.detail
         = <<"Your authentication token has expired. Please renew your subscription.">>

(***************************************************************************)
(* C11: when the api.post of a tools/list request has been answered with   *)
(* an HTTP status >= 500, exactly one line is written for that request: a  *)
(* success response with the request's id and result.tools = [].           *)
(***************************************************************************)
C11_ToolsListServerErrorIsEmptyTools ==
    (LastSettled(<<"tools", "list">>)
        /\ HttpStatus(LastOutcome, {st \in Statuses : st >= 500}))
        => /\ Len(OutOf(LastLine)) = 1
           /\ IsEmptyTools(OutOf(LastLine)[1].resp)
           /\ SameId(OutOf(LastLine)[1].resp, lines[LastLine].id)

\* A tools/list request answered with 500 and an upstream message: one empty tools list.
C11_Witness ==
    /\ LastSettled(<<"tools", "list">>)
    /\ HttpStatus(LastOutcome, {500})
    /\ LastOutcome.error.data # Undef
    /\ OutOf(LastLine) = <<[line |-> LastLine, resp |-> emptyToolsResponse(Num(1))]>>

(***************************************************************************)
(* C12: when the api.post of a forwarded request (tools/list or any other  *)
(* method) succeeds with a payload that is not empty, the single line      *)
(* written for that request is that payload, also when the payload carries *)
(* an error field.                                                         *)
(***************************************************************************)
C12_SuccessIsPassedThrough ==
    (settled # <<>> /\ NonEmptyPayload(LastOutcome))
        => OutOf(LastLine) = <<[line |-> LastLine, resp |-> LastOutcome.data.v]>>

\* A payload with an error field, passed through for a request that is not tools/list.
C12_Witness ==
    /\ LastSettledOther
    /\ NonEmptyPayload(LastOutcome)
    /\ IsError(LastOutcome.data.v)
    /\ Len(OutOf(LastLine)) = 1
    /\ OutOf(LastLine)[1].resp = RemoteError(Num(1))

(***************************************************************************)
(* C13: a tools/list request answered with HTTP 401 or 403 (with a body    *)
(* message that is absent or a string) gets the error code any other       *)
(* method gets for the same answer: -32003 for an expired or invalid       *)
(* token, -32004 for limit or quota.                                       *)
(***************************************************************************)
C13_ToolsListAuthCodeAsOtherMethods ==
    (LastSettled(<<"tools", "list">>)
        /\ HttpStatus(LastOutcome, {401, 403})
        /\ AuthErrorMsg(LastOutcome.error).t = "string")
        => \A k \in 1..Len(OutOf(LastLine)) :
              IsError(OutOf(LastLine)[k].resp)
                  => OutOf(LastLine)[k].resp.error.code = AuthCode(LastOutcome)

(***************************************************************************)
(* C14: a request of another method than tools/list answered with HTTP 401 *)
(* or 403 gets exactly one error response whose code follows the body      *)
(* message, compared in any case: 'expired' gives -32003; otherwise        *)
(* 'limit' or 'quota' gives -32004; otherwise, also when the body has no   *)
(* message, -32003.                                                        *)
(***************************************************************************)
C14_AuthCodeByFirstMatch ==
    (LastSettledOther /\ HttpStatus(LastOutcome, {401, 403}))
        => OneErrorWithCode(AuthCode(LastOutcome))

(***************************************************************************)
(* C15: a request of another method than tools/list answered with HTTP 429 *)
(* and a body message that mentions 'limit' or 'quota' gets an error       *)
(* response with code -32004.                                              *)
(***************************************************************************)
C15_RateLimitWithLimitWordingIsUsageLimit ==
    (LastSettledOther
        /\ HttpStatus(LastOutcome, {429})
        /\ (Mentions(LastOutcome, LIMIT) \/ Mentions(LastOutcome, QUOTA)))
        => \E k \in 1..Len(OutOf(LastLine)) :
              /\ IsError(OutOf(LastLine)[k].resp)
              /\ OutOf(LastLine)[k].resp.error.code = -32004

(***************************************************************************)
(* C16: a request of another method than tools/list answered with HTTP 429 *)
(* and no 'limit' or 'quota' wording gets exactly one error response, with *)
(* code -32029 and the request's id; and whenever a failed remote call     *)
(* leads to a response with code -32029, the answer was an HTTP 429.       *)
(***************************************************************************)
C16_RateLimitCode ==
    /\ (LastSettledOther
          /\ HttpStatus(LastOutcome, {429})
          /\ ~Mentions(LastOutcome, LIMIT) /\ ~Mentions(LastOutcome, QUOTA))
          => OneErrorWithCode(-32029)
    /\ (settled # <<>> /\ LastOutcome.t = "fail"
          /\ \E k \in 1..Len(OutOf(LastLine)) :
                /\ IsError(OutOf(LastLine)[k].resp)
                /\ OutOf(LastLine)[k].resp.error.code = -32029)
          => HttpStatus(LastOutcome, {429})

\* A 429 whose body says 'bad': one error response with the rate-limit code.
C16_Witness ==
    /\ LastSettledOther
    /\ HttpStatus(LastOutcome, {429})
    /\ LastOutcome.error.data = Body(Undef, Str(<<"b", "a", "d">>))
    /\ OneErrorWithCode(-32029)

(***************************************************************************)
(* C17: a request of another method than tools/list whose api.post fails   *)
(* with no HTTP response gets exactly one error response, with code -32001 *)
(* and the request's id.                                                   *)
(***************************************************************************)
C17_NoResponseIsUnreachable ==
    (LastSettledOther /\ NoResponse(LastOutcome)) => OneErrorWithCode(-32001)

\* A timeout on tools/call: the 'Server unreachable' response with id 1.
C17_Witness ==
    /\ LastSettledOther
    /\ LastOutcome = Fail(AxiosNoResponse("timeout of 60000ms exceeded"))
    /\ OutOf(LastLine) =
         <<[line |-> LastLine,
            resp |-> [jsonrpc |-> "2.0", id |-> Num(1),
                      error |-> [code |-> -32001,
                                 message |-> Msg("Server unreachable. Please check your network connection and server status.", <<>>)]]]>>

(***************************************************************************)
(* C18: a request of another method than tools/list answered with an HTTP  *)
(* status >= 500 gets exactly one error response with code -32000, also    *)
(* when the body carries the JSON-RPC code -32601.                         *)
(***************************************************************************)
C18_ServerErrorBeforeNotFound ==
    (LastSettledOther /\ HttpStatus(LastOutcome, {st \in Statuses : st >= 500}))
        => OneErrorWithCode(-32000)

\* A 500 whose body carries error.code -32601, answered with -32000.
C18_Witness ==
    /\ LastSettledOther
    /\ HttpStatus(LastOutcome, {500})
    /\ DataErrorCode(LastOutcome.error.data) = Num(-32601)
    /\ OneErrorWithCode(-32000)

\* The answer is a 404, or a failure status other than 401, 403, 429 and >= 500
\* with a body that carries error.code -32601.
NotFoundAnswer(o) ==
    \/ HttpStatus(o, {404})
    \/ /\ HttpStatus(o, {st \in Statuses : st \notin {401, 403, 429} /\ st < 500})
       /\ DataErrorCode(o.error.data) = Num(-32601)
\* Exactly one line was written for the request just settled: an error with code -32601.
OneMethodNotFound ==
    /\ Len(OutOf(LastLine)) = 1
    /\ IsError(OutOf(LastLine)[1].resp)
    /\ OutOf(LastLine)[1].resp.error.code = -32601

(***************************************************************************)
(* C19 as stated: a forwarded request of any method answered with 404, or  *)
(* with another status than 401/403/429/>=500 and a body carrying          *)
(* error.code -32601, gets exactly one error response with code -32601.    *)
(***************************************************************************)
C19_Original_NotFoundForEveryMethod ==
    (settled # <<>> /\ NotFoundAnswer(LastOutcome)) => OneMethodNotFound

(***************************************************************************)
(* C19 amended: a forwarded request of another method than tools/list      *)
(* answered with 404, or with another status than 401/403/429/>=500 and a  *)
(* body carrying error.code -32601, gets exactly one error response with   *)
(* code -32601; a tools/list request so answered gets the empty tools list.*)
(***************************************************************************)
C19_NotFoundCode ==
    /\ (LastSettledOther /\ NotFoundAnswer(LastOutcome)) => OneMethodNotFound
    /\ (LastSettled(<<"tools", "list">>) /\ NotFoundAnswer(LastOutcome))
          => /\ Len(OutOf(LastLine)) = 1
             /\ IsEmptyTools(OutOf(LastLine)[1].resp)

\* A 400 whose body carries error.code -32601, on tools/call: answered with -32601.
C19_Witness ==
    /\ LastSettledOther
    /\ HttpStatus(LastOutcome, {400})
    /\ DataErrorCode(LastOutcome.error.data) = Num(-32601)
    /\ OneMethodNotFound
    /\ SameId(OutOf(LastLine)[1].resp, lines[LastLine].id)

\* The texts the handler of input line i has logged, in order.
DiagOf(i) ==
    LET own == SelectSeq(diag, LAMBDA e : e.line = i)
    IN [k \in 1..Len(own) |-> own[k].text]

(***************************************************************************)
(* C20 as stated: for a request whose api.post was answered with 404, the  *)
(* handler of that request has logged nothing, whatever options.debug is.  *)
(***************************************************************************)
C20_Original_NoDiagnosticAtAll ==
    (settled # <<>> /\ HttpStatus(LastOutcome, {404})) => DiagOf(LastLine) = <<>>

(***************************************************************************)
(* C20 amended: for a request of another method than tools/list whose      *)
(* api.post was answered with 404, the handler logs nothing once the call  *)
(* has returned: with options.debug on, its diagnostics are the 'Received' *)
(* and 'Forwarding' lines logged before the call and nothing else; with    *)
(* options.debug off there are none.                                       *)
(***************************************************************************)
C20_NotFoundIsSilentAfterTheCall ==
    (LastSettledOther /\ HttpStatus(LastOutcome, {404}))
        => DiagOf(LastLine) = IF debug THEN <<"Received", "Forwarding">> ELSE <<>>

\* With debug on, a tools/call answered with 404: answered with -32601, two lines logged.
C20_Witness ==
    /\ debug
    /\ LastSettledOther
    /\ HttpStatus(LastOutcome, {404})
    /\ OneMethodNotFound
    /\ DiagOf(LastLine) = <<"Received", "Forwarding">>

\* The answer is an HTTP failure that is none of 401, 403, 404, 429 and >= 500 and
\* whose body does not carry error.code -32601.
OtherHttpAnswer(o) ==
    /\ o.t = "fail" /\ o.error.hasResponse
    /\ o.error.status \notin {401, 403, 404, 429}
    /\ o.error.status < 500
    /\ DataErrorCode(o.error.data) # Num(-32601)
\* Exactly one line was written for the request just settled: an error with the code.
OneErrorCoded(code) ==
    /\ Len(OutOf(LastLine)) = 1
    /\ IsError(OutOf(LastLine)[1].resp)
    /\ OutOf(LastLine)[1].resp.error.code = code

(***************************************************************************)
(* C21 as stated: a forwarded request of any method answered with an HTTP  *)
(* failure status that is none of 401, 403, 404, 429, >= 500, with no      *)
(* -32601 in the body, gets exactly one error response with code -32602.   *)
(***************************************************************************)
C21_Original_OtherStatusForEveryMethod ==
    (settled # <<>> /\ OtherHttpAnswer(LastOutcome)) => OneErrorCoded(-32602)

(***************************************************************************)
(* C21 amended: a forwarded request of another method than tools/list so   *)
(* answered gets exactly one error response, with code -32602 and the      *)
(* request's id; a tools/list request so answered gets the empty tools     *)
(* list.                                                                   *)
(***************************************************************************)
C21_OtherStatusIsRequestFailed ==
    /\ (LastSettledOther /\ OtherHttpAnswer(LastOutcome)) => OneErrorWithCode(-32602)
    /\ (LastSettled(<<"tools", "list">>) /\ OtherHttpAnswer(LastOutcome))
          => /\ Len(OutOf(LastLine)) = 1
             /\ IsEmptyTools(OutOf(LastLine)[1].resp)

\* A 409 on tools/call: one 'Request failed' response that echoes the upstream message.
C21_Witness ==
    /\ LastSettledOther
    /\ HttpStatus(LastOutcome, {409})
    /\ OneErrorWithCode(-32602)
    /\ OutOf(LastLine)[1].resp.error.message = Msg("Request failed: ", <<"b", "a", "d">>)

\* The exception, if any, that the handling of a forwarded request raises and that is
\* no failure of the HTTP call: thrown by the tools/list block, or by the classification.
NonHttpException(message, o) ==
    IF IsMethod(MethodOf(message), <<"tools", "list">>)
    THEN ToolsListTry(message, o).throw
    ELSE IF o.t = "fail" THEN ForwardCatch(message, o.error).throw
    ELSE <<>>

(***************************************************************************)
(* C22: when the handling of a forwarded request raises an exception that  *)
(* is no HTTP or transport failure, exactly one line is written for the    *)
(* request: an error response with code -32603, the request's id and the   *)
(* text of the exception as message.                                       *)
(***************************************************************************)
C22_NonHttpExceptionIsInternalError ==
    (settled # <<>> /\ WellFormedRequest(lines[LastLine])
        /\ NonHttpException(Message(LastLine), LastOutcome) # <<>>)
        => /\ OneErrorWithCode(-32603)
           /\ OutOf(LastLine)[1].resp.error.message
                = Msg("", NonHttpException(Message(LastLine), LastOutcome)[1].message)

\* The number of api.post calls issued for input line i.
PostsOf(i) == Cardinality({k \in 1..Len(calls) : calls[k] = i})
\* A line that is answered locally: not JSON, initialize, or a notification.
LocalLine(l) ==
    \/ l.json = "invalid"
    \/ HasMethod(l, <<"initialize">>)
    \/ IsRequest(l) /\ IsNotificationMethod(l.method)
\* A request with a method that is neither a notification nor initialize.
ForwardedLine(l) ==
    /\ IsRequest(l)
    /\ l.method.t = "string"
    /\ ~IsNotificationMethod(l.method)
    /\ ~HasMethod(l, <<"initialize">>)

(***************************************************************************)
(* C23: at every moment exactly one api.post has been issued for each      *)
(* forwarded line, whether its call is pending, has succeeded or has       *)
(* failed, and none for a line that is answered locally (initialize,       *)
(* notification, not JSON).                                                *)
(***************************************************************************)
C23_OnePostPerForwardedLine ==
    \A i \in 1..Len(lines) :
        /\ ForwardedLine(lines[i]) => PostsOf(i) = 1
        /\ LocalLine(lines[i]) => PostsOf(i) = 0

\* A tools/call whose call failed with no response and was answered, then an
\* initialize: one post for the first line, none for the second.
C23_Witness ==
    /\ Len(lines) = 2
    /\ HasMethod(lines[1], <<"tools", "call">>)
    /\ HasMethod(lines[2], <<"initialize">>)
    /\ pending = {}
    /\ \E k \in 1..Len(OutOf(1)) :
          IsError(OutOf(1)[k].resp) /\ OutOf(1)[k].resp.error.code = -32001
    /\ calls = <<1>>

C25_PendingAnsweredBeforeStopped ==
    state = "Stopped" => \A i \in Range(calls) : OutOf(i) # <<>>

(***************************************************************************)
(* C26: while the relay is Running, the end of the input stream and SIGINT *)
(* can both happen, whatever was processed or has failed before; either    *)
(* one takes the relay to Stopped with the heartbeat timer released and    *)
(* exit status 0, and a Stopped relay stays as it is.                      *)
(***************************************************************************)
C26_CloseAndSigintStopWithStatusZero ==
    /\ [][(Close \/ Sigint) => (state' = "Stopped" /\ ~keepAlive' /\ exitCode' = 0)]_vars
    /\ [](state = "Running" => (ENABLED Close) /\ (ENABLED Sigint))
    /\ [](state = "Stopped" => ~keepAlive /\ exitCode = 0 /\ ~ENABLED Heartbeat)
    /\ [][state = "Stopped" => state' = "Stopped"]_vars

\* With debug on: stopped by SIGINT after a failed call on line 1 and with the call of
\* line 2 pending; timer released, status 0.
C26_Witness ==
    /\ state = "Stopped"
    /\ exitCode = 0
    /\ ~keepAlive
    /\ Len(lines) = 2
    /\ pending = {2}
    /\ \E k \in 1..Len(OutOf(1)) : IsError(OutOf(1)[k].resp)
    /\ \E k \in 1..Len(diag) :
          diag[k] = [line |-> 0, text |-> "Received SIGINT signal, shutting down"]

(***************************************************************************)
(* C27: every forwarded line that has no line written yet has its call in  *)
(* flight, however many other calls are in flight; and while the relay is  *)
(* Running a new forwarded line can be taken whatever calls are pending    *)
(* (up to the bound on the number of lines).                               *)
(***************************************************************************)
C27_PendingCallsAreNotBounded ==
    /\ \A i \in 1..Len(lines) :
          (ForwardedLine(lines[i]) /\ OutOf(i) = <<>>) => i \in pending
    /\ (state = "Running" /\ Len(lines) < MaxLines) => ENABLED LineStep(Requests)

\* As many calls in flight as lines were read, none completed.
C27_Witness ==
    /\ state = "Running"
    /\ Len(lines) = MaxLines
    /\ pending = 1..MaxLines
    /\ out = <<>>

\* The position in out of the first line written for input line i.
FirstOut(i) == CHOOSE k \in 1..Len(out) : out[k].line = i /\ \A j \in 1..(k - 1) : out[j].line # i

(***************************************************************************)
(* C28: when the call of a forwarded request A completes after the call of *)
(* a forwarded request B that arrived later, while A was pending, exactly  *)
(* one line has been written for each of them, B's before A's.             *)
(***************************************************************************)
C28_CompletionOrder ==
    \A a \in 1..Len(lines) : \A b \in 1..Len(lines) :
        (/\ settled # <<>> /\ LastLine = a
         /\ a < b
         /\ ForwardedLine(lines[a]) /\ ForwardedLine(lines[b])
         /\ b \in Range(calls) /\ b \notin pending)
        => /\ Len(OutOf(a)) = 1
           /\ Len(OutOf(b)) = 1
           /\ FirstOut(b) < FirstOut(a)

(***************************************************************************)
(* C29: the lines written for input lines that are answered without a call *)
(* (initialize, lines that fail to parse) appear on the output in the      *)
(* order in which those input lines arrived, and the calls are issued in   *)
(* the order in which their lines arrived.                                 *)
(***************************************************************************)
C29_ArrivalOrderForLocalDispatch ==
    /\ \A j \in 1..Len(out) : \A k \in 1..Len(out) :
          (j < k /\ out[j].line \notin Range(calls) /\ out[k].line \notin Range(calls))
              => out[j].line < out[k].line
    /\ \A j \in 1..Len(calls) : \A k \in 1..Len(calls) : j < k => calls[j] < calls[k]

\* A line that is not JSON, then an initialize: answered in that order, no call issued.
C29_Witness ==
    /\ Len(out) >= 2
    /\ out[1].line = 1 /\ IsParseError(out[1].resp)
    /\ out[2].line = 2 /\ IsResult(out[2].resp)
    /\ HasMethod(lines[2], <<"initialize">>)
    /\ calls = <<>>

\* Input line i has been handled to its end.
Completed(i) == i \notin pending /\ OutOf(i) # <<>>

(***************************************************************************)
(* C30: when the same request line was read twice and both were handled to *)
(* the end, the remote answering equal requests equally, exactly one line  *)
(* was written for each, both carry the request's id, and the two          *)
(* responses are equal.                                                    *)
(***************************************************************************)
C30_ReplayIsIdempotent ==
    \A i \in 1..Len(lines) : \A j \in 1..Len(lines) :
        (i < j /\ lines[i] = lines[j] /\ Completed(i) /\ Completed(j))
        => /\ Len(OutOf(i)) = 1 /\ Len(OutOf(j)) = 1
           /\ SameId(OutOf(i)[1].resp, lines[i].id)
           /\ SameId(OutOf(j)[1].resp, lines[j].id)
           /\ OutOf(i)[1].resp = OutOf(j)[1].resp

\* The ErrorType tags attached to the failure while the request is handled: the type
\* of the McpError that is created for it, if one is.
KindsOf(message, o) ==
    LET e == NonHttpException(message, o)
    IN IF e # <<>> /\ e[1].name = "McpError" THEN {e[1].type} ELSE {}
\* The failure is of a class for which the enumeration has a tag.
TaggedClass(o) ==
    NoResponse(o) \/ HttpStatus(o, {401, 403}) \/ HttpStatus(o, {st \in Statuses : st >= 500})
\* The tag the class of the failure calls for.
ExpectedKind(o) ==
    IF NoResponse(o) THEN "CONNECTION"
    ELSE IF HttpStatus(o, {401, 403})
    THEN IF Mentions(o, EXPIRED) THEN "AUTH_EXPIRED"
         ELSE IF Mentions(o, LIMIT) \/ Mentions(o, QUOTA) THEN "AUTH_LIMITS"
         ELSE "AUTH_INVALID"
    ELSE "SERVER"

(***************************************************************************)
(* C31: when the call of a forwarded request of any method has failed with *)
(* no response, with 401/403 or with a status >= 500, the failure carries  *)
(* the ErrorType tag of its class: CONNECTION, AUTH_EXPIRED, AUTH_LIMITS   *)
(* or AUTH_INVALID by the body message, SERVER.                            *)
(***************************************************************************)
C31_FailureCarriesErrorKind ==
    (settled # <<>> /\ WellFormedRequest(lines[LastLine]) /\ TaggedClass(LastOutcome))
        => KindsOf(Message(LastLine), LastOutcome) = {ExpectedKind(LastOutcome)}

\* The positions of the diagnostic lines with the given text.
DiagAt(text) == {k \in 1..Len(diag) : diag[k].text = text}

(***************************************************************************)
(* C32: with options.debug off no 'Heartbeat' line is ever emitted; no     *)
(* 'Heartbeat' line follows the line that reports the close of the input   *)
(* stream; and once the relay is Stopped the timer cannot fire.            *)
(***************************************************************************)
C32_HeartbeatOnlyInDebugWhileRunning ==
    /\ ~debug => DiagAt("Heartbeat") = {}
    /\ \A c \in DiagAt("Input stream closed, exiting") :
          \A h \in DiagAt("Heartbeat") : h < c
    /\ state = "Stopped" => ~ENABLED Heartbeat

\* With debug on: a heartbeat was emitted while Running, then the input stream closed.
C32_Witness ==
    /\ debug
    /\ state = "Stopped"
    /\ DiagAt("Heartbeat") # {}
    /\ DiagAt("Input stream closed, exiting") # {}

(***************************************************************************)
(* C33: when a McpError has been raised while a failed tools/list call was *)
(* handled (no response, or 401/403), it has left startMcpShim and the     *)
(* process has ended with exit status 1.                                   *)
(***************************************************************************)
C33_McpErrorReachesTheCli ==
    (LastSettled(<<"tools", "list">>) /\ KindsOf(Message(LastLine), LastOutcome) # {})
        => (state = "Stopped" /\ exitCode = 1)

(***************************************************************************)
(* C34: in the earlier variant of the relay, when the call of a request of *)
(* another method than tools/list has been answered with 401, 403 or 429,  *)
(* an error response with the request's id has been written for it and the *)
(* relay is still Running.                                                 *)
(***************************************************************************)
C34_LegacyAuthFailureIsRecovered ==
    (LastSettledOther /\ HttpStatus(LastOutcome, {401, 403, 429}))
        => /\ state = "Running"
           /\ \E k \in 1..Len(OutOf(LastLine)) :
                 /\ IsError(OutOf(LastLine)[k].resp)
                 /\ SameId(OutOf(LastLine)[k].resp, lines[LastLine].id)

\* The remote call succeeded with a body that is empty: undefined, null, '' or 0.
EmptyPayload(o) == o.t = "ok" /\ o.data \in {Undef, Null, Str(<<>>), Num(0)}

(***************************************************************************)
(* C35: when the call of a forwarded request succeeds with an empty body,  *)
(* that body is not written: a request of another method than tools/list   *)
(* gets exactly one error response with code -32603 and its id, a          *)
(* tools/list request exactly one success response with its id and an      *)
(* empty tools list.                                                       *)
(***************************************************************************)
C35_EmptyBodyIsNotWritten ==
    /\ (LastSettledOther /\ EmptyPayload(LastOutcome)) => OneErrorWithCode(-32603)
    /\ (LastSettled(<<"tools", "list">>) /\ EmptyPayload(LastOutcome))
          => /\ Len(OutOf(LastLine)) = 1
             /\ IsEmptyTools(OutOf(LastLine)[1].resp)
             /\ SameId(OutOf(LastLine)[1].resp, lines[LastLine].id)

\* An empty body for tools/call: the 'Server returned empty response' error with id 1.
C35_Witness ==
    /\ LastSettledOther
    /\ EmptyPayload(LastOutcome)
    /\ OneErrorWithCode(-32603)
    /\ OutOf(LastLine)[1].resp.error.message = Msg("Server returned empty response", <<>>)

\* The line is a payload of the remote that was passed through, not built by the relay.
IsRemotePayload(resp) ==
    \/ IsResult(resp) /\ resp.result = [content |-> "remote"]
    \/ IsError(resp) /\ resp.error.message = Msg("remote", <<>>)

(***************************************************************************)
(* C36: every line on the output that the relay has built itself has       *)
(* jsonrpc '2.0' and exactly one of result and error; one with code -32700 *)
(* has id null, and every other one that answers a request carries the id  *)
(* of that request.                                                        *)
(***************************************************************************)
C36_GeneratedResponsesAreWellFormed ==
    \A k \in 1..Len(out) :
        LET r == out[k].resp
            l == lines[out[k].line]
        IN ~IsRemotePayload(r)
            => /\ r.jsonrpc = "2.0"
               /\ IsResult(r) # IsError(r)
               /\ IF IsError(r) /\ r.error.code = -32700
                  THEN HasId(r) /\ r.id = Null
                  ELSE IsRequest(l) => SameId(r, l.id)

\* An initialize result for line 1 and an empty tools list for line 2, both with id 1.
C36_Witness ==
    /\ Len(lines) = 2
    /\ Len(OutOf(1)) = 1 /\ OutOf(1)[1].resp = initializeResponse(Num(1))
    /\ Len(OutOf(2)) = 1 /\ OutOf(2)[1].resp = emptyToolsResponse(Num(1))

\* The codes of the error responses of the relay.
ErrorCodes == {-32700, -32001, -32003, -32004, -32029, -32000, -32601, -32602, -32603}
\* The code written for a failed call of a method other than tools/list, as a function
\* of the failure alone.
CodeOf(o) ==
    IF NoResponse(o) THEN -32001
    ELSE IF HttpStatus(o, {401, 403})
    THEN IF AuthErrorMsg(o.error).t # "string" THEN -32700 ELSE AuthCode(o)
    ELSE IF HttpStatus(o, {429}) THEN -32029
    ELSE IF o.error.status >= 500 THEN -32000
    ELSE IF NotFoundAnswer(o) THEN -32601
    ELSE -32602

(***************************************************************************)
(* C37: every error response the relay has built has a code among -32700,  *)
(* -32001, -32003, -32004, -32029, -32000, -32601, -32602 and -32603; and  *)
(* every failed call of a request of another method than tools/list is     *)
(* answered with exactly one error response, whose code is among these and *)
(* is determined by the failure alone.                                     *)
(***************************************************************************)
C37_ClassificationIsTotalAndDeterministic ==
    /\ \A k \in 1..Len(out) :
          (IsError(out[k].resp) /\ ~IsRemotePayload(out[k].resp))
              => out[k].resp.error.code \in ErrorCodes
    /\ (LastSettledOther /\ LastOutcome.t = "fail")
          => /\ Len(OutOf(LastLine)) = 1
             /\ IsError(OutOf(LastLine)[1].resp)
             /\ OutOf(LastLine)[1].resp.error.code = CodeOf(LastOutcome)
             /\ CodeOf(LastOutcome) \in ErrorCodes

\* A 403 that mentions a quota, on tools/call: one error response with code -32004.
C37_Witness ==
    /\ LastSettledOther
    /\ HttpStatus(LastOutcome, {403})
    /\ Mentions(LastOutcome, QUOTA)
    /\ OneErrorWithCode(-32004)

(***************************************************************************)
(* C38: the lines written for a request are those its own line and the     *)
(* outcome of its own call determine, whatever other calls are in flight   *)
(* or have failed; and a step never changes the lines written for any      *)
(* other request than the one whose call it settles.                       *)
(***************************************************************************)
C38_ResponsesAreIndependent ==
    /\ [](settled # <<>>
            => OutOf(LastLine)
                 = Write(LastLine, BeforeAwait(lines[LastLine]).r.out
                                      \o AfterAwait(Message(LastLine), LastOutcome).out))
    /\ [][\A j \in 1..Len(lines) :
            (settled' = <<>> \/ settled'[1].line # j) => OutOf(j)' = OutOf(j)]_vars

\* Line 1 failed with no response while line 2 was in flight; then line 2 was answered
\* with 500: each has its own single error response.
C38_Witness ==
    /\ Len(lines) = 2
    /\ ForwardedLine(lines[1]) /\ ~HasMethod(lines[1], <<"tools", "list">>)
    /\ LastSettledOther /\ LastLine = 2
    /\ HttpStatus(LastOutcome, {500})
    /\ calls = <<1, 2>>
    /\ Len(out) = 2
    /\ out[1].line = 1 /\ out[1].resp.error.code = -32001
    /\ out[2].line = 2 /\ out[2].resp.error.code = -32000

(***************************************************************************)
(* C39: the debug flag does not influence the protocol.  Nothing is        *)
(* written to stderr unless the flag is on; the flag never changes; and    *)
(* what a step appends to stdout is the responses that the line received   *)
(* or the call settled determine, with the flag on or off: steps that only *)
(* produce diagnostics (the heartbeat, the close) append nothing.          *)
(***************************************************************************)
C39_DebugDoesNotInfluenceOutput ==
    /\ [](~debug => diag = <<>>)
    /\ [][debug' = debug]_vars
    /\ [][LET n == Len(lines')
              produced ==
                  IF settled' # <<>>
                  THEN AfterAwait(JsonParse(lines[settled'[1].line])[1], settled'[1].outcome).out
                  ELSE IF n > Len(lines)
                       THEN BeforeAwait(lines'[n]).r.out
                       ELSE <<>>
              i == IF settled' # <<>> THEN settled'[1].line ELSE n
          IN out' = out \o [k \in 1..Len(produced) |-> [line |-> i, resp |-> produced[k]]]]_vars

\* With the flag on: a request answered on stdout, and the handler's diagnostics and a
\* heartbeat on stderr only.
C39_Witness ==
    /\ debug
    /\ LastSettledOther /\ LastOutcome.t = "ok"
    /\ Len(out) = 1 /\ IsResult(out[1].resp)
    /\ \E k \in 1..Len(diag) : diag[k].text = "Heartbeat"
    /\ \E k \in 1..Len(diag) : diag[k].line = LastLine

(***************************************************************************)
(* C40: the lifecycle only moves forward and Stopped is terminal: a step   *)
(* never returns to Running, and a step that ends in Stopped (the close    *)
(* itself, or any step after it) dispatches no input line, issues no       *)
(* outbound call and writes no output line; in Stopped no handler can run. *)
(***************************************************************************)
C40_LifecycleOnlyMovesForward ==
    /\ [](state \in {"Running", "Draining", "Stopped"})
    /\ [][/\ state # "Running" => state' # "Running"
          /\ state = "Stopped" => state' = "Stopped"
          /\ state' = "Stopped" => (lines' = lines /\ calls' = calls /\ out' = out)]_vars
    /\ [](state = "Stopped" => ~ENABLED (LineStep(ErrorLines) \/ SettleFailure))

\* The input closed after one request was answered and while another call was in
\* flight: that call's response is never written.
C40_Witness ==
    /\ state = "Stopped" /\ exitCode = 0
    /\ Len(lines) = 2 /\ calls = <<1, 2>>
    /\ pending = {2}
    /\ Len(out) = 1 /\ out[1].line = 1

====
